---- MODULE Spec2Model ----
(***************************************************************************)
(* Model of the school to-do tracker (src/app.py): the task table, the     *)
(* session login gate, the request handlers and the overview / list        *)
(* computed by index().                                                     *)
(*                                                                         *)
(* Text is a sequence of Unicode code points, so that str.strip() and the   *)
(* parsing of a date are computed and not assumed.  A date is its           *)
(* proleptic Gregorian ordinal (datetime.date.toordinal), so that date      *)
(* differences are integer differences.  A form or a session is a function  *)
(* from the keys that are present to their values.                          *)
(***************************************************************************)
EXTENDS Integers, Sequences, FiniteSets, TLC

\* ------------------------------------------------------------------------
\* Bounds of the model
\* ------------------------------------------------------------------------
\* Largest primary key the model lets the table hand out.
MaxId == 2
\* Number of days the clock may advance past Day0.
MaxAdvance == 1

\* ------------------------------------------------------------------------
\* Text
\* ------------------------------------------------------------------------
\* ord() of the space, the hyphen and the ASCII digits and letters.
ord ==
    (" " :> 32) @@ ("-" :> 45) @@ ("0" :> 48) @@ ("1" :> 49) @@ ("2" :> 50) @@
    ("3" :> 51) @@ ("4" :> 52) @@ ("5" :> 53) @@ ("6" :> 54) @@ ("7" :> 55) @@
    ("8" :> 56) @@ ("9" :> 57) @@ ("A" :> 65) @@ ("B" :> 66) @@ ("C" :> 67) @@
    ("D" :> 68) @@ ("E" :> 69) @@ ("F" :> 70) @@ ("G" :> 71) @@ ("H" :> 72) @@
    ("I" :> 73) @@ ("J" :> 74) @@ ("K" :> 75) @@ ("L" :> 76) @@ ("M" :> 77) @@
    ("N" :> 78) @@ ("O" :> 79) @@ ("P" :> 80) @@ ("Q" :> 81) @@ ("R" :> 82) @@
    ("S" :> 83) @@ ("T" :> 84) @@ ("U" :> 85) @@ ("V" :> 86) @@ ("W" :> 87) @@
    ("X" :> 88) @@ ("Y" :> 89) @@ ("Z" :> 90) @@ ("a" :> 97) @@ ("b" :> 98) @@
    ("c" :> 99) @@ ("d" :> 100) @@ ("e" :> 101) @@ ("f" :> 102) @@ ("g" :> 103) @@
    ("h" :> 104) @@ ("i" :> 105) @@ ("j" :> 106) @@ ("k" :> 107) @@ ("l" :> 108) @@
    ("m" :> 109) @@ ("n" :> 110) @@ ("o" :> 111) @@ ("p" :> 112) @@ ("q" :> 113) @@
    ("r" :> 114) @@ ("s" :> 115) @@ ("t" :> 116) @@ ("u" :> 117) @@ ("v" :> 118) @@
    ("w" :> 119) @@ ("x" :> 120) @@ ("y" :> 121) @@ ("z" :> 122)

\* The text of a string literal: the code points of its characters.
Str(chars) == [i \in DOMAIN chars |-> ord[chars[i]]]

\* The characters str.strip() removes, those str.isspace() holds for:
\* \t \n \v \f \r, the separators 0x1c-0x1f, the space, NEL, the no-break
\* space and the Unicode space separators and line / paragraph separators.
Whitespace ==
    (9..13) \cup (28..32) \cup {133, 160, 5760} \cup (8192..8202)
      \cup {8232, 8233, 8239, 8287, 12288}

RECURSIVE lstrip(_)
lstrip(s) ==
    IF s # <<>> /\ Head(s) \in Whitespace THEN lstrip(Tail(s)) ELSE s

RECURSIVE rstrip(_)
rstrip(s) ==
    IF s # <<>> /\ s[Len(s)] \in Whitespace
    THEN rstrip(SubSeq(s, 1, Len(s) - 1))
    ELSE s

\* str.strip()
strip(s) == rstrip(lstrip(s))

\* d.get(key, default) of a form / session
get(d, key, default) == IF key \in DOMAIN d THEN d[key] ELSE default

\* Python's  a or b  on strings: the empty string is falsy
or_default(s, default) == IF s = <<>> THEN default ELSE s

\* ------------------------------------------------------------------------
\* Configuration (defaults of the environment variables)
\* ------------------------------------------------------------------------
APP_USERNAME == Str(<<"j", "s", "v", "n", "k">>)
APP_PASSWORD == Str(<<"p", "i", "k", "a", "p", "o", "l", "o", "n", "i", "c", "a">>)
obvezno == Str(<<"o", "b", "v", "e", "z", "n", "o">>)
neobvezno == Str(<<"n", "e">>) \o obvezno
PRIORITY_LEVELS == {obvezno, neobvezno}

\* The database behind SQLAlchemy: SQLite unless DATABASE_URL names PostgreSQL.
db_urls == {"sqlite", "postgresql"}

\* The lengths of the String columns of Task.
title_length == 200
task_type_length == 50
subject_length == 100
priority_length == 20

\* ------------------------------------------------------------------------
\* Dates
\* ------------------------------------------------------------------------
\* The code point of the digit zero of every script with decimal digits
\* (Unicode category Nd); the digits one to nine follow it.
DigitZeros ==
    { 48, 1632, 1776, 1984, 2406, 2534, 2662, 2790,
      2918, 3046, 3174, 3302, 3430, 3558, 3664, 3792,
      3872, 4160, 4240, 6112, 6160, 6470, 6608, 6784,
      6800, 6992, 7088, 7232, 7248, 42528, 43216, 43264,
      43472, 43504, 43600, 44016, 65296, 66720, 68912, 69734,
      69872, 69942, 70096, 70384, 70736, 70864, 71248, 71360,
      71472, 71904, 72016, 72784, 73040, 73120, 92768, 92864,
      93008, 120782, 120792, 120802, 120812, 120822, 123200, 123632,
      125264, 130032 }

\* The regular expression's \d: a decimal digit of any script.
IsDigit(c) == \E z \in DigitZeros : c \in z..(z + 9)
DigitVal(c) == c - (CHOOSE z \in DigitZeros : c \in z..(z + 9))

\* int(s) of a text of decimal digits, a leading space skipped.
RECURSIVE ToInt(_)
ToInt(s) ==
    IF s = <<>> THEN 0
    ELSE IF s[Len(s)] \in Whitespace THEN ToInt(SubSeq(s, 1, Len(s) - 1))
    ELSE 10 * ToInt(SubSeq(s, 1, Len(s) - 1)) + DigitVal(s[Len(s)])

is_leap(y) == y % 4 = 0 /\ (y % 100 # 0 \/ y % 400 = 0)

days_in_month(y, m) ==
    IF m = 2 THEN (IF is_leap(y) THEN 29 ELSE 28)
    ELSE IF m \in {4, 6, 9, 11} THEN 30 ELSE 31

RECURSIVE days_before_month(_, _)
days_before_month(y, m) ==
    IF m = 1 THEN 0
    ELSE days_before_month(y, m - 1) + days_in_month(y, m - 1)

\* date(y, m, d).toordinal()
ymd2ord(y, m, d) ==
    LET p == y - 1
    IN  p * 365 + (p \div 4) - (p \div 100) + (p \div 400)
          + days_before_month(y, m) + d

\* What strptime answers for text that is not a date.
ValueError == -1

\* The character of s at position i, -1 past the end of s.
At(s, i) == IF i \in 1..Len(s) THEN s[i] ELSE -1

\* The length of the month the format's expression matches at position 6,
\* 1[0-2]|0[1-9]|[1-9] tried in this order and followed by "-"; 0 if none.
month_length(s) ==
    IF /\ \/ At(s, 6) = ord["1"] /\ At(s, 7) \in ord["0"]..ord["2"]
          \/ At(s, 6) = ord["0"] /\ At(s, 7) \in ord["1"]..ord["9"]
       /\ At(s, 8) = ord["-"]
    THEN 2
    ELSE IF At(s, 6) \in ord["1"]..ord["9"] /\ At(s, 7) = ord["-"] THEN 1
    ELSE 0

\* The length of the day the format's expression matches at position p,
\* 3[0-1]|[1-2]\d|0[1-9]|[1-9]| [1-9] tried in this order; 0 if none.
day_length(s, p) ==
    IF At(s, p) = ord["3"] /\ At(s, p + 1) \in ord["0"]..ord["1"] THEN 2
    ELSE IF At(s, p) \in ord["1"]..ord["2"] /\ IsDigit(At(s, p + 1)) THEN 2
    ELSE IF At(s, p) = ord["0"] /\ At(s, p + 1) \in ord["1"]..ord["9"] THEN 2
    ELSE IF At(s, p) \in ord["1"]..ord["9"] THEN 1
    ELSE IF At(s, p) = ord[" "] /\ At(s, p + 1) \in ord["1"]..ord["9"] THEN 2
    ELSE 0

\* datetime.strptime(s, "%Y-%m-%d").date(): the text must match
\* (\d\d\d\d)-(1[0-2]|0[1-9]|[1-9])-(3[0-1]|[1-2]\d|0[1-9]|[1-9]| [1-9])
\* from its start and leave nothing over, and name a day of the calendar;
\* anything else raises ValueError.
strptime(s) ==
    IF ~(/\ \A i \in 1..4 : IsDigit(At(s, i))
         /\ At(s, 5) = ord["-"]
         /\ month_length(s) > 0)
    THEN ValueError
    ELSE
      LET p == 6 + month_length(s) + 1
          Y == ToInt(SubSeq(s, 1, 4))
          M == ToInt(SubSeq(s, 6, 5 + month_length(s)))
          D == ToInt(SubSeq(s, p, p + day_length(s, p) - 1))
      IN  IF /\ day_length(s, p) > 0
             /\ p + day_length(s, p) - 1 = Len(s)
             /\ Y >= 1
             /\ D <= days_in_month(Y, M)
          THEN ymd2ord(Y, M, D)
          ELSE ValueError

\* The first day of the model's clock: 2024-03-05.
Day0 == ymd2ord(2024, 3, 5)

\* ------------------------------------------------------------------------
\* Inputs
\* ------------------------------------------------------------------------
\* Characters the inputs use besides printable ASCII.
TAB == 9
LF == 10
CR == 13
NBSP == 160
\* The full-width digits of the year 2024.
FullWidth2024 == <<65298, 65296, 65298, 65300>>

\* A text longer than the priority column.
LongPriority == [i \in 1..(priority_length + 1) |-> ord["x"]]

\* Forms posted to /add and /edit/<id>.  The due dates lie 0, 8 and 15 days
\* after Day0, which puts a task on both sides of every bucket boundary as the
\* clock moves.
TaskForms ==
    { \* the day written as a space and a digit, no description field, a
      \* priority that ends with a no-break space
      [title |-> Str(<<" ", "t">>), task_type |-> Str(<<"V", "a", "j", "a">>),
       subject |-> Str(<<"a", " ">>), due_date |-> Str(<<"2", "0", "2", "4", "-", "0", "3", "-", " ", "5">>),
       priority |-> neobvezno \o <<NBSP>>],
      \* a year of full-width digits, a description that ends with CR LF,
      \* a task type and a priority of whitespace only
      [title |-> Str(<<"u">>), task_type |-> <<ord[" "], TAB>>,
       subject |-> Str(<<"b">>), due_date |-> FullWidth2024 \o Str(<<"-", "0", "3", "-", "1", "3">>),
       description |-> Str(<<" ", "d">>) \o <<CR, LF>>, priority |-> <<CR>>],
      \* the same without a priority field
      [title |-> Str(<<"u">>), task_type |-> <<ord[" "], TAB>>,
       subject |-> Str(<<"b">>), due_date |-> FullWidth2024 \o Str(<<"-", "0", "3", "-", "1", "3">>),
       description |-> Str(<<" ", "d">>) \o <<CR, LF>>],
      \* a priority longer than its column
      [title |-> Str(<<"t">>), task_type |-> Str(<<"I", "z", "p", "i", "t">>),
       subject |-> Str(<<"a">>),
       due_date |-> Str(<<"2", "0", "2", "4", "-", "3", "-", "2", "0">>),
       description |-> <<>>, priority |-> LongPriority],
      \* no title field
      [task_type |-> Str(<<"V", "a", "j", "a">>), subject |-> Str(<<"a">>),
       due_date |-> Str(<<"2", "0", "2", "4", "-", "0", "3", "-", "0", "5">>)],
      \* a due date that is no day of the calendar
      [title |-> Str(<<"t">>), task_type |-> Str(<<"V", "a", "j", "a">>),
       subject |-> Str(<<"a">>),
       due_date |-> Str(<<"2", "0", "2", "4", "-", "0", "2", "-", "3", "0">>)] }

\* Forms posted to /login.
LoginForms ==
    { [username |-> APP_USERNAME \o <<CR>>, password |-> <<ord[" "]>> \o APP_PASSWORD \o <<LF>>],
      [username |-> APP_USERNAME, password |-> Str(<<"p">>)],
      [username |-> Str(<<"x">>), password |-> APP_PASSWORD],
      [username |-> APP_USERNAME] }

Methods == {"GET", "POST"}

\* Task ids a request may name: every id the table can hold and one more.
TaskIds == 1..(MaxId + 1)

\* Query parameters of index().
Subjects == {<<>>, Str(<<"a">>), Str(<<"b">>)}
Ranges == {"", "overdue", "today", "week", "two_weeks", "later", "month"}
ShowDones == {"0", "1", "true"}

\* ------------------------------------------------------------------------
\* State
\* ------------------------------------------------------------------------
VARIABLES
    Task,         \* the task table: primary key |-> row
    task_id_seq,  \* PostgreSQL's sequence behind Task.id (unused by SQLite)
    db_url,       \* which database the process was started with
    session,      \* the client's session: keys present |-> values
    today,        \* date.today(), as an ordinal
    last          \* the last request and the response it got

vars == <<Task, task_id_seq, db_url, session, today, last>>

EmptySession == [k \in {} |-> TRUE]
NoForm == [k \in {} |-> <<>>]

Response(endpoint, method, task_id, status, form) ==
    [endpoint |-> endpoint, method |-> method, task_id |-> task_id,
     status |-> status, form |-> form]

\* Outcomes of a request.
Rendered == "200 template"
RenderedError == "200 template with error"
RedirectIndex == "302 index"
RedirectLogin == "302 login"
BadRequest == "400"
NotFound == "404"
MethodNotAllowed == "405"
ServerError == "500"

Init ==
    /\ Task = [id \in {} |-> <<>>]
    /\ task_id_seq = 0
    /\ db_url \in db_urls
    /\ session = EmptySession
    /\ today = Day0
    /\ last = Response("", "", 0, "", NoForm)

\* ------------------------------------------------------------------------
\* Login gate
\* ------------------------------------------------------------------------
is_logged_in == get(session, "logged_in", FALSE)

\* require_login with delete_task left public.
require_login_delete_public(endpoint_name) ==
    endpoint_name \notin {"login", "static", "delete_task"}

require_login(endpoint_name) == endpoint_name \notin {"login", "static"}

\* TRUE when the before_request hook answers the request itself.
check_login(endpoint) == require_login(endpoint) /\ ~is_logged_in

\* ------------------------------------------------------------------------
\* The task table
\* ------------------------------------------------------------------------
Max(S) == CHOOSE x \in S : \A y \in S : y <= x

\* The primary key an INSERT gets: SQLite takes one more than the largest
\* rowid in use, PostgreSQL the next value of the sequence.
next_id ==
    IF db_url = "sqlite"
    THEN (IF DOMAIN Task = {} THEN 1 ELSE Max(DOMAIN Task) + 1)
    ELSE task_id_seq + 1

Required == {"title", "task_type", "subject", "due_date"}

\* form_priority without the default for a blank value.
form_priority_blank(form) == strip(get(form, "priority", obvezno))

\* The column values add_task and edit_task take from a form.
form_priority(form) == or_default(strip(get(form, "priority", obvezno)), obvezno)
form_task_type(form) == strip(form["task_type"])
form_description(form) == strip(get(form, "description", <<>>))

new_task(form) ==
    [title |-> strip(form["title"]),
     task_type |-> form_task_type(form),
     subject |-> strip(form["subject"]),
     due_date |-> strptime(form["due_date"]),
     description |-> form_description(form),
     is_done |-> FALSE,
     priority |-> form_priority(form)]

edited_task(task, form) ==
    [task EXCEPT !.title = strip(form["title"]),
                 !.task_type = form_task_type(form),
                 !.subject = strip(form["subject"]),
                 !.description = form_description(form),
                 !.priority = form_priority(form),
                 !.due_date = strptime(form["due_date"])]

\* delete that only marks the row.
delete_soft(id) == [Task EXCEPT ![id].is_done = TRUE]

\* set_done without the WHERE clause: every row is set.
set_done_everywhere(T, id, value) == [i \in DOMAIN T |-> [T[i] EXCEPT !.is_done = value]]

\* get_or_404 that lets a missing row pass.
get_or_404_never_aborts(task_id) == FALSE

insert(id, row) == [i \in DOMAIN Task \cup {id} |-> IF i = id THEN row ELSE Task[i]]
delete(id) == [i \in DOMAIN Task \ {id} |-> Task[i]]
set_done(T, id, value) == [T EXCEPT ![id].is_done = value]

\* Task.query.get_or_404(task_id) aborts the request when no row has the key.
get_or_404_aborts(task_id) == task_id \notin DOMAIN Task

\* What a POST of a task form ends with when it stores nothing, "" otherwise.
form_failure(form) ==
    IF ~(Required \subseteq DOMAIN form) THEN BadRequest
    ELSE IF strptime(form["due_date"]) = ValueError THEN ServerError
    ELSE ""

\* The String columns of Task and their lengths.
String ==
    [title |-> title_length, task_type |-> task_type_length,
     subject |-> subject_length, priority |-> priority_length]

\* A text of the row is longer than its column.
value_too_long(row) == \E c \in DOMAIN String : Len(row[c]) > String[c]

\* A text of the row holds the character NUL.
has_nul(row) ==
    \E c \in DOMAIN String \cup {"description"} :
      \E i \in DOMAIN row[c] : row[c][i] = 0

\* db.session.commit() raises: PostgreSQL refuses a text longer than its
\* column and a text with NUL in it; SQLite stores any text.
commit_fails(row) ==
    db_url = "postgresql" /\ (value_too_long(row) \/ has_nul(row))

\* The sequence after an INSERT that PostgreSQL refused: a value drawn for
\* the row before the refusal is not given back.
seq_after_failure(row) ==
    {task_id_seq} \cup
      (IF value_too_long(row) /\ next_id <= MaxId THEN {next_id} ELSE {})

\* ------------------------------------------------------------------------
\* Queries
\* ------------------------------------------------------------------------
\* Every enumeration of the set S.
RECURSIVE Orderings(_)
Orderings(S) ==
    IF S = {} THEN {<<>>}
    ELSE UNION {{<<x>> \o o : o \in Orderings(S \ {x})} : x \in S}

\* The enumeration of S by ascending primary key.
RECURSIVE by_id(_)
by_id(S) ==
    IF S = {} THEN <<>>
    ELSE LET first == CHOOSE x \in S : \A y \in S : x <= y
         IN  <<first>> \o by_id(S \ {first})

\* The enumeration of S by ascending due date, equal dates by ascending key.
RECURSIVE by_due_date_then_id(_)
by_due_date_then_id(S) ==
    IF S = {} THEN <<>>
    ELSE LET first ==
               CHOOSE x \in S :
                 \A y \in S :
                   \/ Task[x].due_date < Task[y].due_date
                   \/ Task[x].due_date = Task[y].due_date /\ x <= y
         IN  <<first>> \o by_due_date_then_id(S \ {first})

\* Every enumeration of S by ascending due date.
RECURSIVE by_due_date(_)
by_due_date(S) ==
    IF S = {} THEN {<<>>}
    ELSE UNION {{<<x>> \o o : o \in by_due_date(S \ {x})} :
                x \in {m \in S : \A y \in S : Task[m].due_date <= Task[y].due_date}}

\* query.all(): the rows of S as the database returns them.  SQLite scans the
\* table by rowid; PostgreSQL promises no order.
all(S) == IF db_url = "sqlite" THEN {by_id(S)} ELSE Orderings(S)

\* order_by_due_date without the ORDER BY clause.
order_by_nothing(S) == all(S)

\* query.order_by(Task.due_date.asc()).all(): SQLite feeds the rowid scan to a
\* sorter that keeps equal keys in arrival order; PostgreSQL orders by the key
\* and promises nothing about rows with equal keys.
order_by_due_date(S) ==
    IF db_url = "sqlite"
    THEN {by_due_date_then_id(S)}
    ELSE by_due_date(S)

\* base_query: Task.query, narrowed to a subject when one is given.
base_query(subject_filter) ==
    {id \in DOMAIN Task : subject_filter = <<>> \/ Task[id].subject = subject_filter}

is_false(id) == Task[id].is_done = FALSE

overview_query(subject_filter) == {id \in base_query(subject_filter) : is_false(id)}

Buckets == {"overdue", "today", "week", "two_weeks", "later"}

\* bucket with the week closed one day early.
bucket_week_short(id) ==
    LET delta == Task[id].due_date - today
    IN  IF delta < 0 THEN "overdue"
        ELSE IF delta = 0 THEN "today"
        ELSE IF delta < 7 THEN "week"
        ELSE IF delta <= 14 THEN "two_weeks"
        ELSE "later"

\* The bucket the loop of index() appends a task to.
bucket(id) ==
    LET delta == Task[id].due_date - today
    IN  IF delta < 0 THEN "overdue"
        ELSE IF delta = 0 THEN "today"
        ELSE IF delta <= 7 THEN "week"
        ELSE IF delta <= 14 THEN "two_weeks"
        ELSE "later"

\* The overview built from the rows overview_tasks, in their order.
overview(overview_tasks) ==
    [b \in Buckets |-> SelectSeq(overview_tasks, LAMBDA id : bucket(id) = b)]

\* The overviews index() can render for a subject filter.
index_overview(subject_filter) ==
    {overview(o) : o \in all(overview_query(subject_filter))}

\* The date condition a range token adds to the query.
range_condition(range_filter, id) ==
    LET due_date == Task[id].due_date
    IN  IF range_filter = "overdue" THEN due_date < today
        ELSE IF range_filter = "today" THEN due_date = today
        ELSE IF range_filter = "week"
        THEN due_date >= today /\ due_date <= today + 7
        ELSE IF range_filter = "two_weeks"
        THEN due_date >= today /\ due_date <= today + 14
        ELSE IF range_filter = "later" THEN due_date > today + 14
        ELSE TRUE

\* query with show_done honoured under a range as well.
query_range_shows_done(subject_filter, range_filter, show_done) ==
    IF range_filter # ""
    THEN {id \in base_query(subject_filter) :
            (show_done \/ is_false(id)) /\ range_condition(range_filter, id)}
    ELSE IF ~show_done
    THEN {id \in base_query(subject_filter) : is_false(id)}
    ELSE base_query(subject_filter)

\* query with an unrecognized range token handled as no range at all.
query_unrecognized_is_empty(subject_filter, range_filter, show_done) ==
    IF range_filter \in {"overdue", "today", "week", "two_weeks", "later"}
    THEN {id \in base_query(subject_filter) :
            is_false(id) /\ range_condition(range_filter, id)}
    ELSE IF ~show_done
    THEN {id \in base_query(subject_filter) : is_false(id)}
    ELSE base_query(subject_filter)

\* The rows of the main list, before ordering.
query(subject_filter, range_filter, show_done) ==
    IF range_filter # ""
    THEN {id \in base_query(subject_filter) :
            is_false(id) /\ range_condition(range_filter, id)}
    ELSE IF ~show_done
    THEN {id \in base_query(subject_filter) : is_false(id)}
    ELSE base_query(subject_filter)

\* index_tasks with every show_done but "0" taken as set.
index_tasks_truthy(subject_filter, range_filter, show_done_arg) ==
    order_by_due_date(query(subject_filter, range_filter, show_done_arg # "0"))

\* The task lists index() can render for the query parameters.
index_tasks(subject_filter, range_filter, show_done_arg) ==
    order_by_due_date(query(subject_filter, range_filter, show_done_arg = "1"))

\* Task.is_overdue and Task.is_soon
is_overdue(id) == ~Task[id].is_done /\ Task[id].due_date < today
is_soon(id) ==
    LET delta == Task[id].due_date - today
    IN  ~Task[id].is_done /\ 0 <= delta /\ delta <= 1

\* ------------------------------------------------------------------------
\* Requests
\* ------------------------------------------------------------------------
Answer(r) == last' = r
Frame == UNCHANGED <<db_url, today>>

index ==
    /\ Answer(Response("index", "GET", 0,
                       IF check_login("index") THEN RedirectLogin ELSE Rendered,
                       NoForm))
    /\ Frame
    /\ UNCHANGED <<Task, task_id_seq, session>>

add_task ==
    \E method \in Methods :
        /\ Frame
        /\ UNCHANGED session
        /\ IF check_login("add_task")
           THEN /\ Answer(Response("add_task", method, 0, RedirectLogin, NoForm))
                /\ UNCHANGED <<Task, task_id_seq>>
           ELSE IF method = "GET"
           THEN /\ Answer(Response("add_task", method, 0, Rendered, NoForm))
                /\ UNCHANGED <<Task, task_id_seq>>
           ELSE \E form \in TaskForms :
                  IF form_failure(form) # ""
                  THEN /\ Answer(Response("add_task", method, 0, form_failure(form), NoForm))
                       /\ UNCHANGED <<Task, task_id_seq>>
                  ELSE IF commit_fails(new_task(form))
                  THEN /\ Answer(Response("add_task", method, 0, ServerError, NoForm))
                       /\ UNCHANGED Task
                       /\ task_id_seq' \in seq_after_failure(new_task(form))
                  ELSE /\ next_id <= MaxId
                       /\ Task' = insert(next_id, new_task(form))
                       /\ task_id_seq' = IF db_url = "sqlite" THEN task_id_seq ELSE next_id
                       /\ Answer(Response("add_task", method, 0, RedirectIndex, NoForm))

edit_task ==
    \E task_id \in TaskIds, method \in Methods :
        /\ Frame
        /\ UNCHANGED <<session, task_id_seq>>
        /\ IF check_login("edit_task")
           THEN /\ Answer(Response("edit_task", method, task_id, RedirectLogin, NoForm))
                /\ UNCHANGED Task
           ELSE IF get_or_404_aborts(task_id)
           THEN /\ Answer(Response("edit_task", method, task_id, NotFound, NoForm))
                /\ UNCHANGED Task
           ELSE IF method = "GET"
           THEN /\ Answer(Response("edit_task", method, task_id, Rendered, NoForm))
                /\ UNCHANGED Task
           ELSE \E form \in TaskForms :
                  IF form_failure(form) # ""
                  THEN /\ Answer(Response("edit_task", method, task_id, form_failure(form), NoForm))
                       /\ UNCHANGED Task
                  ELSE IF commit_fails(edited_task(Task[task_id], form))
                  THEN /\ Answer(Response("edit_task", method, task_id, ServerError, NoForm))
                       /\ UNCHANGED Task
                  ELSE /\ Task' = [Task EXCEPT ![task_id] = edited_task(@, form)]
                       /\ Answer(Response("edit_task", method, task_id, RedirectIndex, NoForm))

delete_task ==
    \E task_id \in TaskIds :
        /\ Frame
        /\ UNCHANGED <<session, task_id_seq>>
        /\ IF check_login("delete_task")
           THEN /\ Answer(Response("delete_task", "POST", task_id, RedirectLogin, NoForm))
                /\ UNCHANGED Task
           ELSE IF get_or_404_aborts(task_id)
           THEN /\ Answer(Response("delete_task", "POST", task_id, NotFound, NoForm))
                /\ UNCHANGED Task
           ELSE /\ Task' = delete(task_id)
                /\ Answer(Response("delete_task", "POST", task_id, RedirectIndex, NoForm))

mark_done ==
    \E task_id \in TaskIds :
        /\ Frame
        /\ UNCHANGED <<session, task_id_seq>>
        /\ IF check_login("mark_done")
           THEN /\ Answer(Response("mark_done", "GET", task_id, RedirectLogin, NoForm))
                /\ UNCHANGED Task
           ELSE IF get_or_404_aborts(task_id)
           THEN /\ Answer(Response("mark_done", "GET", task_id, NotFound, NoForm))
                /\ UNCHANGED Task
           ELSE /\ Task' = set_done(Task, task_id, TRUE)
                /\ Answer(Response("mark_done", "GET", task_id, RedirectIndex, NoForm))

mark_undone ==
    \E task_id \in TaskIds :
        /\ Frame
        /\ UNCHANGED <<session, task_id_seq>>
        /\ IF check_login("mark_undone")
           THEN /\ Answer(Response("mark_undone", "GET", task_id, RedirectLogin, NoForm))
                /\ UNCHANGED Task
           ELSE IF get_or_404_aborts(task_id)
           THEN /\ Answer(Response("mark_undone", "GET", task_id, NotFound, NoForm))
                /\ UNCHANGED Task
           ELSE /\ Task' = set_done(Task, task_id, FALSE)
                /\ Answer(Response("mark_undone", "GET", task_id, RedirectIndex, NoForm))

\* Whether a posted login form carries the configured credentials.
credentials_ok(form) ==
    strip(form["username"]) = APP_USERNAME /\ strip(form["password"]) = APP_PASSWORD

login ==
    \E method \in Methods :
        /\ Frame
        /\ UNCHANGED <<Task, task_id_seq>>
        /\ IF method = "GET"
           THEN /\ Answer(Response("login", method, 0, Rendered, NoForm))
                /\ UNCHANGED session
           ELSE \E form \in LoginForms :
                  IF ~({"username", "password"} \subseteq DOMAIN form)
                  THEN /\ Answer(Response("login", method, 0, BadRequest, form))
                       /\ UNCHANGED session
                  ELSE IF credentials_ok(form)
                  THEN /\ session' = [k \in DOMAIN session \cup {"logged_in", "username"} |->
                                        IF k = "logged_in" THEN TRUE
                                        ELSE IF k = "username" THEN strip(form["username"])
                                        ELSE session[k]]
                       /\ Answer(Response("login", method, 0, RedirectIndex, form))
                  ELSE /\ Answer(Response("login", method, 0, RenderedError, form))
                       /\ UNCHANGED session

logout ==
    /\ Frame
    /\ UNCHANGED <<Task, task_id_seq>>
    /\ IF check_login("logout")
       THEN /\ Answer(Response("logout", "GET", 0, RedirectLogin, NoForm))
            /\ UNCHANGED session
       ELSE /\ session' = EmptySession
            /\ Answer(Response("logout", "GET", 0, RedirectLogin, NoForm))

\* A request whose method the route does not accept matches no endpoint: the
\* login hook lets it pass and the router answers 405.
method_not_allowed ==
    \E method \in Methods :
        /\ Answer(Response("", method, 0, MethodNotAllowed, NoForm))
        /\ Frame
        /\ UNCHANGED <<Task, task_id_seq, session>>

\* Midnight passes: date.today() is read anew by every request.
next_day ==
    /\ today < Day0 + MaxAdvance
    /\ today' = today + 1
    /\ UNCHANGED <<Task, task_id_seq, db_url, session, last>>

Next ==
    \/ index
    \/ add_task
    \/ edit_task
    \/ delete_task
    \/ mark_done
    \/ mark_undone
    \/ login
    \/ logout
    \/ method_not_allowed
    \/ next_day

Spec == Init /\ [][Next]_vars

\* ------------------------------------------------------------------------
\* Properties of the overview and of the task list
\* ------------------------------------------------------------------------
Range(l) == {l[i] : i \in DOMAIN l}

\* How often the row id occurs in the list l.
Count(l, id) == Cardinality({i \in DOMAIN l : l[i] = id})

Matches(id, subject_filter) ==
    subject_filter = <<>> \/ Task[id].subject = subject_filter

NotDone(subject_filter) ==
    {id \in DOMAIN Task : Task[id].is_done = FALSE /\ Matches(id, subject_filter)}

Delta(id) == Task[id].due_date - today

IndexRendered == last.endpoint = "index" /\ last.status = Rendered

RecognizedRanges == {"overdue", "today", "week", "two_weeks", "later"}

\* C1: whenever index() has rendered, whatever the table, the day and the
\* subject filter, every task that is not done and matches the filter occurs
\* exactly once in the overview, in the bucket its day difference selects
\* (overdue < 0, today = 0, week 1..7, two_weeks 8..14, later >= 15), and a
\* done or filtered-out task occurs in no bucket.
C1_OverviewPartition ==
    IndexRendered =>
      \A subject_filter \in Subjects :
        \A ov \in index_overview(subject_filter) :
          /\ DOMAIN ov = Buckets
          /\ \A b \in Buckets : Range(ov[b]) \subseteq NotDone(subject_filter)
          /\ \A id \in NotDone(subject_filter) :
               /\ Count(ov["overdue"], id) = (IF Delta(id) < 0 THEN 1 ELSE 0)
               /\ Count(ov["today"], id) = (IF Delta(id) = 0 THEN 1 ELSE 0)
               /\ Count(ov["week"], id) =
                    (IF 1 <= Delta(id) /\ Delta(id) <= 7 THEN 1 ELSE 0)
               /\ Count(ov["two_weeks"], id) =
                    (IF 8 <= Delta(id) /\ Delta(id) <= 14 THEN 1 ELSE 0)
               /\ Count(ov["later"], id) = (IF Delta(id) >= 15 THEN 1 ELSE 0)

\* The overview was rendered with a not-done task due in exactly 7 days and a
\* done task of subject "a".
C1_Witness ==
    /\ IndexRendered
    /\ \E id \in DOMAIN Task : ~Task[id].is_done /\ Delta(id) = 7
    /\ \E id \in DOMAIN Task : Task[id].is_done /\ Task[id].subject = Str(<<"a">>)

\* The date condition the specification gives for a range token.
InRange(range_filter, id) ==
    CASE range_filter = "overdue" -> Task[id].due_date < today
      [] range_filter = "today" -> Task[id].due_date = today
      [] range_filter = "week" -> 0 <= Delta(id) /\ Delta(id) <= 7
      [] range_filter = "two_weeks" -> 0 <= Delta(id) /\ Delta(id) <= 14
      [] range_filter = "later" -> Delta(id) > 14

\* C2: whenever index() has rendered with a recognized range, the list holds exactly the not-done tasks
\* matching the subject filter whose due date meets the range's condition
\* (week and two_weeks include today), each once, and show_done=1 changes
\* nothing.
C2_RangeFilter ==
    IndexRendered =>
      \A subject_filter \in Subjects, range_filter \in RecognizedRanges :
        /\ \A show_done \in ShowDones :
             \A l \in index_tasks(subject_filter, range_filter, show_done) :
               /\ Range(l) = {id \in NotDone(subject_filter) : InRange(range_filter, id)}
               /\ Len(l) = Cardinality(Range(l))
        /\ index_tasks(subject_filter, range_filter, "1")
             = index_tasks(subject_filter, range_filter, "0")

\* The list was rendered with a not-done task due today (inside week and
\* two_weeks) and a done task whose date lies in the two-week window.
C2_Witness ==
    /\ IndexRendered
    /\ \E id \in DOMAIN Task : ~Task[id].is_done /\ Delta(id) = 0
    /\ \E id \in DOMAIN Task :
         Task[id].is_done /\ 0 <= Delta(id) /\ Delta(id) <= 14

UnrecognizedRanges == Ranges \ (RecognizedRanges \cup {""})

\* C3 as stated: index() called with an unrecognized range token returns the
\* list of an empty range with the same subject and show_done.
C3_Original ==
    IndexRendered =>
      \A subject_filter \in Subjects, show_done \in ShowDones :
        \A range_filter \in UnrecognizedRanges :
          index_tasks(subject_filter, range_filter, show_done)
            = index_tasks(subject_filter, "", show_done)

\* C3, amended: in index() an unrecognized range token adds no date condition but, like
\* every non-empty range, it hides the done tasks whatever show_done says:
\* the list is that of an empty range with show_done unset.
C3_UnrecognizedRange ==
    IndexRendered =>
      \A subject_filter \in Subjects, show_done \in ShowDones :
        \A range_filter \in UnrecognizedRanges :
          /\ index_tasks(subject_filter, range_filter, show_done)
               = index_tasks(subject_filter, "", "0")
          /\ \A l \in index_tasks(subject_filter, range_filter, show_done) :
               Range(l) = NotDone(subject_filter)

\* The list was rendered while the table holds a done and a not-done task.
C3_Witness ==
    /\ IndexRendered
    /\ \E id \in DOMAIN Task : Task[id].is_done
    /\ \E id \in DOMAIN Task : ~Task[id].is_done

\* C4: whenever index() has rendered with an empty range, the list holds exactly the not-done tasks that
\* match the subject filter unless show_done is "1", and then exactly all
\* tasks that match it, done or not, whatever their due date.
C4_ShowDone ==
    IndexRendered =>
      \A subject_filter \in Subjects, show_done \in ShowDones :
        \A l \in index_tasks(subject_filter, "", show_done) :
          /\ Len(l) = Cardinality(Range(l))
          /\ Range(l) = IF show_done = "1"
                        THEN {id \in DOMAIN Task : Matches(id, subject_filter)}
                        ELSE NotDone(subject_filter)

\* The list was rendered while the table holds a done task that is overdue
\* and a not-done task of the other subject.
C4_Witness ==
    /\ IndexRendered
    /\ \E id \in DOMAIN Task :
         Task[id].is_done /\ Delta(id) < 0 /\ Task[id].subject = Str(<<"a">>)
    /\ \E id \in DOMAIN Task : ~Task[id].is_done /\ Task[id].subject = Str(<<"b">>)

Sorted(l) ==
    \A i, j \in DOMAIN l : i < j => Task[l[i]].due_date <= Task[l[j]].due_date

\* Rows of equal due date come in creation order.  The table gives a new row
\* a key above every key in use, so creation order is key order.
TiesInCreationOrder(l) ==
    \A i, j \in DOMAIN l :
        i < j /\ Task[l[i]].due_date = Task[l[j]].due_date => l[i] < l[j]

\* C5 as stated: every list index() returns is sorted ascending by due date and the sort is
\* stable, tasks of equal due date appearing in creation order.
C5_Original ==
    IndexRendered =>
      \A subject_filter \in Subjects, range_filter \in Ranges, show_done \in ShowDones :
        \A l \in index_tasks(subject_filter, range_filter, show_done) :
          Sorted(l) /\ TiesInCreationOrder(l)

\* C5, amended: every list index() returns is sorted ascending by due date and holds each row
\* of its query once; the order among tasks of equal due date is the
\* database's, not the code's.
C5_SortedByDueDate ==
    IndexRendered =>
      \A subject_filter \in Subjects, range_filter \in Ranges, show_done \in ShowDones :
        \A l \in index_tasks(subject_filter, range_filter, show_done) :
          /\ Sorted(l)
          /\ Range(l) = query(subject_filter, range_filter, show_done = "1")
          /\ Len(l) = Cardinality(Range(l))

\* The list was rendered while the table holds two not-done tasks of one due
\* date.
C5_Witness ==
    /\ IndexRendered
    /\ \E i, j \in DOMAIN Task :
         /\ i # j
         /\ Task[i].due_date = Task[j].due_date
         /\ ~Task[i].is_done /\ ~Task[j].is_done

\* ------------------------------------------------------------------------
\* Properties of the requests
\* ------------------------------------------------------------------------
\* The step is a request (the clock does not move) that was routed to the
\* endpoint, named the task id and got the status.
Request(endpoint) == today' = today /\ last'.endpoint = endpoint
RequestFor(endpoint, task_id) == Request(endpoint) /\ last'.task_id = task_id
Outcome(endpoint, task_id, status) ==
    RequestFor(endpoint, task_id) /\ last'.status = status

Fields ==
    {"title", "task_type", "subject", "due_date", "description", "is_done", "priority"}

\* The step changed nothing in the table but is_done of the row task_id,
\* which is now value.
OnlyDoneSet(task_id, value) ==
    /\ task_id \in DOMAIN Task
    /\ DOMAIN Task' = DOMAIN Task
    /\ \A id \in DOMAIN Task :
         IF id = task_id
         THEN /\ Task'[id].is_done = value
              /\ DOMAIN Task'[id] = Fields
              /\ \A f \in Fields \ {"is_done"} : Task'[id][f] = Task[id][f]
         ELSE Task'[id] = Task[id]

\* The table T with is_done of the row task_id cleared and nothing else
\* touched.
WithNotDone(T, task_id) ==
    [id \in DOMAIN T |->
       IF id = task_id
       THEN [f \in Fields |-> IF f = "is_done" THEN FALSE ELSE T[id][f]]
       ELSE T[id]]

\* C6: mark_done changes nothing but is_done of the task it names, which it
\* sets; mark_undone changes nothing but is_done of the task it names, which
\* it clears; and undoing what mark_done did gives back the table as it was
\* before, with is_done of that task false.
C6_DoneUndone ==
    [][\A task_id \in TaskIds :
         /\ Outcome("mark_done", task_id, RedirectIndex)
              => /\ OnlyDoneSet(task_id, TRUE)
                 /\ set_done(Task', task_id, FALSE) = WithNotDone(Task, task_id)
         /\ Outcome("mark_undone", task_id, RedirectIndex)
              => /\ OnlyDoneSet(task_id, FALSE)
                 /\ Task' = WithNotDone(Task, task_id)
         /\ (Outcome("mark_undone", task_id, RedirectIndex)
             /\ last = Response("mark_done", "GET", task_id, RedirectIndex, NoForm))
              => /\ ~Task'[task_id].is_done
                 /\ Task' = WithNotDone(Task, task_id)
                 /\ \A f \in Fields \ {"is_done"} : Task'[task_id][f] = Task[task_id][f]
      ]_vars

\* A task was marked undone right after it was marked done, next to another
\* task that is done.
C6_Witness ==
    /\ last.endpoint = "mark_undone" /\ last.status = RedirectIndex
    /\ last.task_id \in DOMAIN Task
    /\ ~Task[last.task_id].is_done
    /\ \E id \in DOMAIN Task : id # last.task_id /\ Task[id].is_done

\* The row id occurs in no bucket and in no list index() can render.
InNoView(id) ==
    /\ \A subject_filter \in Subjects :
         \A ov \in index_overview(subject_filter) :
           \A b \in Buckets : id \notin Range(ov[b])
    /\ \A subject_filter \in Subjects, range_filter \in Ranges, show_done \in ShowDones :
         \A l \in index_tasks(subject_filter, range_filter, show_done) :
           id \notin Range(l)

\* The step deleted the row task_id and left every other row as it was.
Deleted(task_id) ==
    /\ task_id \in DOMAIN Task
    /\ DOMAIN Task' = DOMAIN Task \ {task_id}
    /\ \A id \in DOMAIN Task' : Task'[id] = Task[id]
    /\ InNoView(task_id)'

\* C7 as stated, for the first request after the delete: a successful
\* delete_task removes the task from the table and from every bucket and
\* list without touching another task, and the id it deleted is still not
\* found after the request that follows.
C7_Original ==
    [][/\ \A task_id \in TaskIds :
            Outcome("delete_task", task_id, RedirectIndex) => Deleted(task_id)
       /\ (/\ last.endpoint = "delete_task" /\ last.status = RedirectIndex
           /\ last.task_id \notin DOMAIN Task)
            => last.task_id \notin DOMAIN Task'
      ]_vars

\* C7, amended: a successful delete_task removes the task from the table and
\* from every bucket and list without touching another task, and an id that
\* is not in the table stays out of it (and so stays not found) until an
\* add_task POST stores a new task; the new task may be given that id, as
\* SQLite hands out the largest id in use plus one.
C7_DeletedUntilAdd ==
    [][/\ \A task_id \in TaskIds :
            Outcome("delete_task", task_id, RedirectIndex) => Deleted(task_id)
       /\ \A id \in TaskIds :
            (id \notin DOMAIN Task /\ id \in DOMAIN Task')
              => /\ Outcome("add_task", 0, RedirectIndex)
                 /\ last'.method = "POST"
                 /\ DOMAIN Task' = DOMAIN Task \cup {id}
                 /\ \A other \in DOMAIN Task : Task'[other] = Task[other]
      ]_vars

\* A task was deleted from a table that held another one, and the id is free.
C7_Witness ==
    /\ last.endpoint = "delete_task" /\ last.status = RedirectIndex
    /\ last.task_id \notin DOMAIN Task
    /\ DOMAIN Task # {}

ByTaskId == {"edit_task", "delete_task", "mark_done", "mark_undone"}

\* C8: logged in, a request to edit_task, delete_task, mark_done or
\* mark_undone that names an id the table does not hold is answered 404 and
\* leaves the table as it is.
C8_NotFound ==
    [][\A endpoint \in ByTaskId, task_id \in TaskIds :
         (is_logged_in /\ task_id \notin DOMAIN Task /\ RequestFor(endpoint, task_id))
           => /\ last'.status = NotFound
              /\ Task' = Task
              /\ task_id_seq' = task_id_seq
      ]_vars

\* Logged in, a request named an id the table does not hold, next to a task
\* the table does hold.
C8_Witness ==
    /\ is_logged_in
    /\ last.endpoint \in ByTaskId
    /\ last.status = NotFound
    /\ last.task_id \notin DOMAIN Task
    /\ DOMAIN Task # {}

Stripped(s) == s = <<>> \/ (s[1] \notin Whitespace /\ s[Len(s)] \notin Whitespace)

\* C9 as stated: every stored task has a priority and a task_type that are
\* not empty.
C9_Original ==
    \A id \in DOMAIN Task : Task[id].priority # <<>> /\ Task[id].task_type # <<>>

\* C9, amended: every stored task has a priority that is not empty, a blank
\* or missing one having been replaced by "obvezno"; priority and task_type
\* are stored trimmed, and task_type has no default: a blank one is stored
\* as the empty string.
C9_PriorityNeverEmpty ==
    \A id \in DOMAIN Task :
      /\ Task[id].priority # <<>>
      /\ Stripped(Task[id].priority)
      /\ Stripped(Task[id].task_type)

\* A form with a blank task_type and a blank priority was stored by add_task
\* or edit_task.
C9_Witness ==
    /\ last.endpoint \in {"add_task", "edit_task"} /\ last.status = RedirectIndex
    /\ \E id \in DOMAIN Task :
         /\ Task[id].subject = Str(<<"b">>)
         /\ Task[id].priority = obvezno
         /\ Task[id].task_type = <<>>

Protected ==
    {"index", "add_task", "edit_task", "delete_task", "mark_done", "mark_undone", "logout"}

\* The posted login form carries the configured credentials, once trimmed.
RightCredentials(form) ==
    /\ {"username", "password"} \subseteq DOMAIN form
    /\ strip(form["username"]) = APP_USERNAME
    /\ strip(form["password"]) = APP_PASSWORD

\* C10: a request to a protected endpoint made while not logged in is
\* redirected to login and changes neither the table nor the session; the
\* session becomes logged in only by a login POST whose trimmed username and
\* password are the configured ones, and stops being logged in only by
\* logout; a login POST with other credentials leaves the session as it was.
C10_LoginGate ==
    [][/\ \A endpoint \in Protected :
            (~is_logged_in /\ Request(endpoint))
              => /\ last'.status = RedirectLogin
                 /\ Task' = Task /\ task_id_seq' = task_id_seq
                 /\ session' = session
       /\ (~is_logged_in /\ is_logged_in')
            => /\ Request("login") /\ last'.method = "POST"
               /\ RightCredentials(last'.form)
               /\ last'.status = RedirectIndex
       /\ (is_logged_in /\ ~is_logged_in') => Request("logout")
       /\ (Request("login") /\ ~RightCredentials(last'.form))
            => session' = session /\ last'.status # RedirectIndex
       /\ (Request("login") /\ last'.method = "POST" /\ RightCredentials(last'.form))
            => is_logged_in'
       /\ Request("login") => Task' = Task
      ]_vars

\* Not logged in, after a logout that left tasks in the table, a delete was
\* asked for and redirected to login.
C10_Witness ==
    /\ ~is_logged_in
    /\ last.endpoint = "delete_task" /\ last.status = RedirectLogin
    /\ last.task_id \in DOMAIN Task

====
